---- MODULE Spec2Model ----
(***************************************************************************)
(* Model of the support portal: the intake form (SupportForm) and the chat *)
(* session (ChatInterface).  Texts are sequences of one-character strings  *)
(* (fixed literals are one-chunk sequences), so trimming and the e-mail    *)
(* pattern are computed on characters.  JSON values are tagged records.    *)
(***************************************************************************)
EXTENDS Integers, Sequences, FiniteSets

VARIABLES formData, errors, showChat,
          messages, inputMessage, isLoading, connectionStatus, sessionId,
          mount, now, sent, inflight, saved, saveFailed, timers

\* formData, errors, showChat: state of SupportForm
\* messages .. sessionId:      state of the mounted ChatInterface
\* mount:    number of ChatInterface instances mounted so far
\* now:      the value of Date.now()
\* sent:     webhook requests issued by the mounted session, in order
\* inflight: requests whose fetch has not settled yet (of any instance)
\* saved:    entries handed to saveMessageToSupabase since the last unmount
\* saveFailed: the latest of those calls ran its catch block
\* timers:   pending setTimeout callbacks, in the order they were set
vars == <<formData, errors, showChat,
          messages, inputMessage, isLoading, connectionStatus, sessionId,
          mount, now, sent, inflight, saved, saveFailed, timers>>

formVars == <<formData, errors, showChat>>
chatVars == <<messages, inputMessage, isLoading, connectionStatus, sessionId>>

(* ------------------------------ bounds --------------------------------- *)
MaxTime == 1
MaxRequests == 3
MaxMounts == 2
MaxInputLen == 1
MaxEmailLen == 5
MaxNomeLen == 2
NumRand == 1

(* ------------------------------ texts ---------------------------------- *)
Str(alphabet, n) == UNION {[1..k -> alphabet] : k \in 0..n}

IsSpace(c) == c = " "

RECURSIVE TrimStart(_)
TrimStart(s) ==
  IF s = <<>> THEN s
  ELSE IF IsSpace(Head(s)) THEN TrimStart(Tail(s)) ELSE s

RECURSIVE TrimEnd(_)
TrimEnd(s) ==
  IF s = <<>> THEN s
  ELSE IF IsSpace(s[Len(s)]) THEN TrimEnd(SubSeq(s, 1, Len(s) - 1)) ELSE s

Trim(s) == TrimEnd(TrimStart(s))

(* ------------------------------ intake form ---------------------------- *)
Fields == {"nome", "email", "solicitacao"}

EmptyForm == [nome |-> <<>>, email |-> <<>>, solicitacao |-> <<>>]

NoErrors == [f \in {} |-> ""]

Undefined == "undefined"

\* the character class [^\s@]
InClass(c) == ~IsSpace(c) /\ c # "@"

AllInClass(s, a, b) == \A k \in a..b : InClass(s[k])

\* /^[^\s@]+@[^\s@]+\.[^\s@]+$/.test(s)
EmailRegexTest(s) ==
  \E i \in 1..Len(s), j \in 1..Len(s) :
    /\ 1 < i /\ i + 1 < j /\ j < Len(s)
    /\ s[i] = "@" /\ s[j] = "."
    /\ AllInClass(s, 1, i - 1)
    /\ AllInClass(s, i + 1, j - 1)
    /\ AllInClass(s, j + 1, Len(s))

NomeError_Never(fd) == {}

NomeError(fd) == IF Trim(fd.nome) = <<>> THEN {"nome"} ELSE {}

EmailError_NoFormatCheck(fd) == IF Trim(fd.email) = <<>> THEN {"email"} ELSE {}

EmailError(fd) ==
  IF Trim(fd.email) = <<>> THEN {"email"}
  ELSE IF ~EmailRegexTest(fd.email) THEN {"email"} ELSE {}

ErrorText(fd, f) ==
  IF f = "nome" THEN "Nome e obrigatorio"
  ELSE IF Trim(fd.email) = <<>> THEN "E-mail e obrigatorio"
  ELSE "E-mail deve ter um formato valido"

NewErrors(fd) == [f \in NomeError(fd) \cup EmailError(fd) |-> ErrorText(fd, f)]

ValidateForm(fd) == DOMAIN NewErrors(fd) = {}


ErrorShown(f) == f \in DOMAIN errors /\ errors[f] # Undefined

\* values offered to the form fields in the whole-application specification
NomeValues == {<<>>, <<"a">>}
EmailValues == {<<"a", "@", "a">>, <<"a", "@", "a", ".", "a">>}
SolicitacaoValues == {<<"a">>}

FieldValues(f) ==
  IF f = "nome" THEN NomeValues
  ELSE IF f = "email" THEN EmailValues ELSE SolicitacaoValues

\* alphabets of the exhaustive form specification
NomeAlphabet == {" ", "a"}
EmailAlphabet == {" ", "a", "@", "."}

(* ------------------------------ JSON values ---------------------------- *)
JUndefined == [t |-> "undefined"]
JString(s) == [t |-> "string", s |-> s]
JObject(value) == [t |-> "object", value |-> value]

Truthy(v) == v.t = "object" \/ (v.t = "string" /\ v.s # <<>>)

\* v.value (undefined unless v is an object carrying it)
ValueOf(v) == IF v.t = "object" THEN v.value ELSE JUndefined

\* `${v}`
Stringify(v) ==
  IF v.t = "string" THEN v.s
  ELSE IF v.t = "object" THEN <<"[object Object]">> ELSE <<"undefined">>

Hi == <<"h", "i">>

MessageFields ==
  { JString(<<>>), JString(Hi), JObject(JString(<<>>)), JObject(JString(Hi)) }

\* parsed response bodies: null, or an object with optional message / output
ResponseDatas ==
  { [t |-> "null", message |-> JUndefined, output |-> JUndefined] }
  \cup { [t |-> "object", message |-> JUndefined, output |-> o] :
           o \in {JUndefined, JString(Hi)} }
  \cup { [t |-> "object", message |-> m, output |-> JUndefined] :
           m \in MessageFields }

NoData == [t |-> "null", message |-> JUndefined, output |-> JUndefined]

\* what fetch / response.json() can produce for one request
Responses ==
  { [kind |-> "reject", ok |-> FALSE, parses |-> FALSE, data |-> NoData],
    [kind |-> "http", ok |-> FALSE, parses |-> FALSE, data |-> NoData],
    [kind |-> "http", ok |-> FALSE, parses |-> TRUE,
     data |-> [t |-> "object", message |-> JString(Hi), output |-> JUndefined]],
    [kind |-> "http", ok |-> TRUE, parses |-> FALSE, data |-> NoData] }
  \cup { [kind |-> "http", ok |-> TRUE, parses |-> TRUE, data |-> d] :
           d \in ResponseDatas }

(* ------------------------------ chat session --------------------------- *)
NoSession == [t |-> -1, r |-> 0]

\* `session_${Date.now()}_${Math.random()...}`
NewSessionId(r) == [t |-> now, r |-> r]

Mounted == showChat /\ sessionId # NoSession

WelcomeText == <<"Ola! Sou seu assistente de IA. Como posso ajuda-lo hoje?">>

FallbackText ==
  <<"Desculpe, estou com dificuldades tecnicas no momento. Tente novamente em alguns instantes.">>

WelcomeMessage ==
  [id |-> now, content |-> JString(WelcomeText), sender |-> "agent", timestamp |-> now]

UserMessage(text) ==
  [id |-> now, content |-> JString(text), sender |-> "user", timestamp |-> now]

HasMessage_RequiresValue(data) ==
  data.t = "object" /\ Truthy(ValueOf(data.message))

\* responseData && responseData.message
HasMessage(data) == data.t = "object" /\ Truthy(data.message)

ReplyContent_MessageOnly(data) == data.message

\* responseData.message.value || responseData.message
ReplyContent(data) ==
  IF Truthy(ValueOf(data.message)) THEN ValueOf(data.message) ELSE data.message

AgentResponse_AsUser(data) ==
  [id |-> now + 1, content |-> ReplyContent(data), sender |-> "user", timestamp |-> now]

AgentResponse(data) ==
  [id |-> now + 1, content |-> ReplyContent(data), sender |-> "agent", timestamp |-> now]

FallbackResponse ==
  [id |-> now + 1, content |-> JString(FallbackText), sender |-> "agent", timestamp |-> now]

AppendMessage_Prepends(ms, m) == <<m>> \o ms

AppendMessage_Replaces(prev, m) == <<m>>

\* prev => [...prev, m]
AppendMessage(prev, m) == Append(prev, m)

\* the record logged by saveMessageToSupabase
SaveEntry_NoAuthor(sid, content, sender) ==
  [sessionId |-> sid, message |-> Stringify(content)]

SaveEntry(sid, content, sender) ==
  [sessionId |-> sid, message |-> <<sender, ": ">> \o Stringify(content)]

InitConteudo(u) ==
  <<"Inicializacao do chat. Dados do usuario: Nome: ">> \o u.nome
    \o <<", Email: ">> \o u.email \o <<", Solicitacao: ">> \o u.solicitacao

WebhookData_Regenerates(m, n, sid, action, tipo, conteudo) ==
  [mount |-> m, seq |-> n, sessionId |-> NewSessionId(1), action |-> action,
   timestamp |-> now, usuario |-> formData,
   mensagem |-> [tipo |-> tipo, conteudo |-> conteudo]]

WebhookData(m, n, sid, action, tipo, conteudo) ==
  [mount |-> m, seq |-> n, sessionId |-> sid, action |-> action, timestamp |-> now,
   usuario |-> formData, mensagem |-> [tipo |-> tipo, conteudo |-> conteudo]]

MessageToSend_Raw(text) == text

MessageToSend(text) == Trim(text)

CanSend_NeedsConnected(text) ==
  Trim(text) # <<>> /\ ~isLoading /\ connectionStatus = "connected"

CanSend_NoTrim(text) == text # <<>> /\ ~isLoading

\* the negation of the early return of sendMessage
CanSend(text) == Trim(text) # <<>> /\ ~isLoading

InputDisabled == isLoading

ChatAlphabet == {" ", "a"}

\* a text with blanks around it
PaddedInput == <<" ", "a", " ">>

\* the values typed into the chat input
ChatInputs == Str(ChatAlphabet, MaxInputLen) \cup {PaddedInput}


(* ------------------------------ initial state -------------------------- *)
Init ==
  /\ formData = EmptyForm
  /\ errors = NoErrors
  /\ showChat = FALSE
  /\ messages = <<>>
  /\ inputMessage = <<>>
  /\ isLoading = FALSE
  /\ connectionStatus = "connecting"
  /\ sessionId = NoSession
  /\ mount = 0
  /\ now = 0
  /\ sent = <<>>
  /\ inflight = {}
  /\ saved = <<>>
  /\ saveFailed = FALSE
  /\ timers = <<>>

(* ------------------------------ form actions --------------------------- *)
FormRendered_Always == TRUE

\* SupportForm renders the chat in place of the form while showChat holds
FormRendered == ~showChat

HandleInputChange(field, value) ==
  /\ FormRendered
  /\ formData' = [formData EXCEPT ![field] = value]
  /\ errors' = IF ErrorShown(field)
               THEN [f \in DOMAIN errors |-> IF f = field THEN Undefined ELSE errors[f]]
               ELSE errors
  /\ UNCHANGED <<showChat, chatVars, mount, now, sent, inflight, saved, saveFailed, timers>>

HandleSubmit ==
  /\ FormRendered
  /\ ValidateForm(formData) => mount < MaxMounts
  /\ errors' = NewErrors(formData)
  /\ showChat' = ValidateForm(formData)
  /\ UNCHANGED <<formData, chatVars, mount, now, sent, inflight, saved, saveFailed, timers>>

\* onBack={() => setShowChat(false)}: the chat component is unmounted and its
\* state discarded; its requests stay in flight
OnBack ==
  /\ Mounted
  /\ showChat' = FALSE
  /\ messages' = <<>>
  /\ inputMessage' = <<>>
  /\ isLoading' = FALSE
  /\ connectionStatus' = "connecting"
  /\ sessionId' = NoSession
  /\ sent' = <<>>
  /\ saved' = <<>>
  /\ saveFailed' = FALSE
  /\ UNCHANGED <<formData, errors, mount, now, inflight, timers>>

(* ------------------------------ chat actions --------------------------- *)
Mount_NotLoading ==
  /\ showChat /\ sessionId = NoSession
  /\ \E r \in 1..NumRand :
       LET sid == NewSessionId(r)
           webhookData == WebhookData(mount + 1, 1, sid, "initialize_chat",
                                      "inicializacao", InitConteudo(formData))
       IN
       /\ sessionId' = sid
       /\ saved' = Append(saved, SaveEntry(sid, WelcomeMessage.content, "agent"))
       /\ saveFailed' \in BOOLEAN
       /\ sent' = <<webhookData>>
       /\ inflight' = inflight \cup {webhookData}
  /\ mount' = mount + 1
  /\ inputMessage' = <<>>
  /\ isLoading' = FALSE
  /\ connectionStatus' = "connecting"
  /\ messages' = <<WelcomeMessage>>
  /\ UNCHANGED <<formVars, now, timers>>

\* first render of ChatInterface and its mount effect: initializeChat up to
\* the fetch call
Mount ==
  /\ showChat /\ sessionId = NoSession
  /\ \E r \in 1..NumRand :
       LET sid == NewSessionId(r)
           webhookData == WebhookData(mount + 1, 1, sid, "initialize_chat",
                                      "inicializacao", InitConteudo(formData))
       IN
       /\ sessionId' = sid
       /\ saved' = Append(saved, SaveEntry(sid, WelcomeMessage.content, "agent"))
       /\ saveFailed' \in BOOLEAN
       /\ sent' = <<webhookData>>
       /\ inflight' = inflight \cup {webhookData}
  /\ mount' = mount + 1
  /\ inputMessage' = <<>>
  /\ isLoading' = TRUE
  /\ connectionStatus' = "connecting"
  /\ messages' = <<WelcomeMessage>>
  /\ UNCHANGED <<formVars, now, timers>>

SetInputMessage(value) ==
  /\ Mounted
  /\ ~InputDisabled
  /\ inputMessage' = value
  /\ UNCHANGED <<formVars, messages, isLoading, connectionStatus, sessionId,
                 mount, now, sent, inflight, saved, saveFailed, timers>>

LoadingAfterSave_OnlyIfSaved(saveOk) == saveOk

\* setIsLoading(true) after the awaited saveMessageToSupabase call, which
\* catches whatever its body throws
LoadingAfterSave(saveOk) == TRUE

\* sendMessage up to the fetch call
SendMessage ==
  /\ Mounted
  /\ CanSend(inputMessage) => Len(sent) < MaxRequests
  /\ IF CanSend(inputMessage)
     THEN LET messageToSend == MessageToSend(inputMessage)
              webhookData == WebhookData(mount, Len(sent) + 1, sessionId,
                                         "send_message", "usuario", messageToSend)
          IN
          /\ messages' = AppendMessage(messages, UserMessage(messageToSend))
          /\ inputMessage' = <<>>
          /\ saved' = Append(saved, SaveEntry(sessionId, JString(messageToSend), "user"))
          /\ \E saveOk \in BOOLEAN :
               /\ saveFailed' = ~saveOk
               /\ isLoading' = LoadingAfterSave(saveOk)
          /\ sent' = Append(sent, webhookData)
          /\ inflight' = inflight \cup {webhookData}
          /\ UNCHANGED <<formVars, connectionStatus, sessionId, mount, now, timers>>
     ELSE UNCHANGED vars

\* the key-press events the chat input can receive
KeyEvent(key, held) ==
  [key |-> key, shiftKey |-> "shift" \in held, ctrlKey |-> "ctrl" \in held,
   altKey |-> "alt" \in held, metaKey |-> "meta" \in held]

\* the modifier keys held during a press of Enter
ModifierSets == {{}, {"shift"}, {"ctrl"}, {"alt"}, {"meta"}, {"shift", "ctrl"}}

KeyEvents ==
  {KeyEvent("Enter", held) : held \in ModifierSets} \cup {KeyEvent("a", {})}

SendsOnKey_IgnoresShift(e) == e.key = "Enter"

\* the condition of handleKeyPress
SendsOnKey(e) == e.key = "Enter" /\ ~e.shiftKey

\* a key press in the chat input, which takes none while it is disabled
HandleKeyPress(e) ==
  /\ Mounted
  /\ ~InputDisabled
  /\ IF SendsOnKey(e) THEN SendMessage ELSE UNCHANGED vars

Alive_AnyInstance(r) == Mounted

\* the component instance that issued request r is still the mounted one
Alive(r) == Mounted /\ r.mount = mount

ResponseOk_IgnoresStatus(resp) == resp.kind = "http"

ResponseOk(resp) == resp.kind = "http" /\ resp.ok

\* response.ok held and response.json() resolved
Succeeded(resp) == ResponseOk(resp) /\ resp.parses

\* setConnectionStatus in the try block / in the catch block
SettledStatus_AlwaysConnected(resp) == "connected"

SettledStatus(resp) == IF Succeeded(resp) THEN "connected" ELSE "disconnected"

LoadingAfterSettle_OnlyOnSuccess(resp) == ~Succeeded(resp)

LoadingAfterSettle_Never(resp) == TRUE

\* setIsLoading(false) in the finally block
LoadingAfterSettle(resp) == FALSE

RetryRequests_OnFailure(r, resp) == IF Succeeded(resp) THEN {} ELSE {r}

\* the requests issued once a fetch has settled: neither the try block nor
\* the catch block calls fetch again
RetryRequests(r, resp) == {}

\* initializeChat from the point its fetch settles with resp
InitializeSettle(r, resp) ==
  /\ r \in inflight
  /\ r.action = "initialize_chat"
  /\ LET appends == Succeeded(resp) /\ HasMessage(resp.data)
         agentResponse == AgentResponse(resp.data)
     IN
     /\ messages' = IF Alive(r) /\ appends
                    THEN AppendMessage(messages, agentResponse) ELSE messages
     /\ saved' = IF appends
                 THEN Append(saved, SaveEntry(r.sessionId, agentResponse.content, "agent"))
                 ELSE saved
     /\ saveFailed' \in IF appends THEN BOOLEAN ELSE {saveFailed}
     /\ connectionStatus' = IF Alive(r)
                            THEN SettledStatus(resp)
                            ELSE connectionStatus
     /\ isLoading' = IF Alive(r) THEN LoadingAfterSettle(resp) ELSE isLoading
  /\ inflight' = (inflight \ {r}) \cup RetryRequests(r, resp)
  /\ UNCHANGED <<formVars, inputMessage, sessionId, mount, now, sent, timers>>

\* sendMessage from the point its fetch settles with resp
SendSettle(r, resp) ==
  /\ r \in inflight
  /\ r.action = "send_message"
  /\ LET appends == IF Succeeded(resp) THEN HasMessage(resp.data) ELSE TRUE
         reply == IF Succeeded(resp) THEN AgentResponse(resp.data) ELSE FallbackResponse
     IN
     /\ messages' = IF Alive(r) /\ appends
                    THEN AppendMessage(messages, reply) ELSE messages
     /\ saved' = IF appends
                 THEN Append(saved, SaveEntry(r.sessionId, reply.content, "agent"))
                 ELSE saved
     /\ saveFailed' \in IF appends THEN BOOLEAN ELSE {saveFailed}
     /\ connectionStatus' = IF Alive(r)
                            THEN SettledStatus(resp)
                            ELSE connectionStatus
     /\ isLoading' = IF Alive(r) THEN LoadingAfterSettle(resp) ELSE isLoading
  /\ inflight' = (inflight \ {r}) \cup RetryRequests(r, resp)
  /\ UNCHANGED <<formVars, inputMessage, sessionId, mount, now, sent, timers>>

\* Date.now() advances
Tick ==
  /\ now < MaxTime
  /\ now' = now + 1
  /\ UNCHANGED <<formVars, chatVars, mount, sent, inflight, saved, saveFailed, timers>>

Next ==
  \/ \E f \in Fields : \E v \in FieldValues(f) : HandleInputChange(f, v)
  \/ HandleSubmit
  \/ OnBack
  \/ Mount
  \/ \E v \in ChatInputs : SetInputMessage(v)
  \/ SendMessage
  \/ \E e \in KeyEvents : HandleKeyPress(e)
  \/ \E r \in inflight : \E resp \in Responses : InitializeSettle(r, resp)
  \/ \E r \in inflight : \E resp \in Responses : SendSettle(r, resp)
  \/ Tick

Spec == Init /\ [][Next]_vars

(* ------------------------------ form-only specification ---------------- *)
\* every Contact over the alphabets, submitted to the form
\* some fetch in flight settles
Settle ==
  \E r \in inflight : \E resp \in Responses :
    InitializeSettle(r, resp) \/ SendSettle(r, resp)

\* every fetch eventually settles
SpecLive == Init /\ [][Next]_vars /\ WF_vars(Settle)

InitForm ==
  /\ formData \in [nome : Str(NomeAlphabet, MaxNomeLen),
                   email : Str(EmailAlphabet, MaxEmailLen),
                   solicitacao : {<<>>}]
  /\ errors = NoErrors
  /\ showChat = FALSE
  /\ messages = <<>>
  /\ inputMessage = <<>>
  /\ isLoading = FALSE
  /\ connectionStatus = "connecting"
  /\ sessionId = NoSession
  /\ mount = 0
  /\ now = 0
  /\ sent = <<>>
  /\ inflight = {}
  /\ saved = <<>>
  /\ saveFailed = FALSE
  /\ timers = <<>>

NextForm == HandleSubmit \/ Mount

SpecForm == InitForm /\ [][NextForm]_vars

(* ------------------------------ properties ----------------------------- *)
IsPrefix(a, b) == Len(a) <= Len(b) /\ SubSeq(b, 1, Len(a)) = a

Last(ms) == ms[Len(ms)]

NonBlankInputs == {t \in ChatInputs : Trim(t) # <<>>}

\* this step appends exactly one agent message with the given content
AppendsOneAgent(content) ==
  /\ Len(messages') = Len(messages) + 1
  /\ IsPrefix(messages, messages')
  /\ Last(messages').sender = "agent"
  /\ Last(messages').content = content

\* the texts held by the reply field the component reads: message, or
\* message.value
MessageTexts(data) ==
  IF data.t # "object" THEN {}
  ELSE IF data.message.t = "string" THEN {data.message.s}
  ELSE IF data.message.t = "object" /\ data.message.value.t = "string"
       THEN {data.message.value.s}
  ELSE {}

\* the same, with the `output` shape also counted as a reply field
AnyReplyTexts(data) ==
  MessageTexts(data) \cup
  (IF data.t = "object" /\ data.output.t = "string" THEN {data.output.s} ELSE {})

\* C1: within one mounted session the sessionId is generated once, and every
\* request the session has issued (initialize_chat and each send_message)
\* carries exactly that value.
C1_SessionIdOnEveryRequest ==
  /\ \A i \in DOMAIN sent : Mounted /\ sent[i].sessionId = sessionId
  /\ \A r \in inflight : Alive(r) => r.sessionId = sessionId
  /\ Mounted => (sent # <<>> /\ sent[1].action = "initialize_chat")

C1_Witness ==
  /\ Mounted
  /\ Len(sent) >= 2
  /\ sent[2].action = "send_message"
  /\ sent[2].timestamp # sessionId.t

\* C2: while the chat is shown the message log only grows at its end: every
\* step keeps the old log as a prefix of the new one.
C2_AppendOnly == [][showChat' => IsPrefix(messages, messages')]_vars

C2_Witness ==
  /\ Mounted
  /\ Len(messages) >= 4
  /\ messages[2].sender = "agent"
  /\ messages[3].sender = "user"

\* C3: when a send settles with a non-success HTTP status, exactly one agent
\* message with the fallback text is appended right after the user message of
\* that send, and connectionStatus becomes disconnected.
C3_SendNon2xxFallback ==
  [][\A r \in inflight : \A resp \in Responses :
       (Alive(r) /\ resp.kind = "http" /\ ~resp.ok /\ SendSettle(r, resp))
       => /\ AppendsOneAgent(JString(FallbackText))
          /\ Last(messages).sender = "user"
          /\ Last(messages).content = JString(r.mensagem.conteudo)
          /\ connectionStatus' = "disconnected"]_vars

C3_Witness ==
  /\ Mounted
  /\ Len(messages) >= 3
  /\ Last(messages).content = JString(FallbackText)
  /\ messages[Len(messages) - 1].sender = "user"
  /\ connectionStatus = "disconnected"
  /\ ~isLoading

\* C4 as stated: when a send settles with success status and a body whose
\* reply field (output as in { output: "hi" }, message or message.value)
\* holds a non-empty text T, exactly one agent message with text T is
\* appended and connectionStatus becomes connected.
C4_Original ==
  [][\A r \in inflight : \A resp \in Responses :
       (Alive(r) /\ Succeeded(resp) /\ SendSettle(r, resp))
       => \A T \in AnyReplyTexts(resp.data) \ {<<>>} :
            AppendsOneAgent(JString(T)) /\ connectionStatus' = "connected"]_vars

\* C4 amended: when a send settles with success status and a body whose
\* message field is a non-empty text T, or an object whose value is a
\* non-empty text T, exactly one agent message with text T is appended and
\* connectionStatus becomes connected.
C4_SendReplyFromMessageField ==
  [][\A r \in inflight : \A resp \in Responses :
       (Alive(r) /\ Succeeded(resp) /\ SendSettle(r, resp))
       => \A T \in MessageTexts(resp.data) \ {<<>>} :
            AppendsOneAgent(JString(T)) /\ connectionStatus' = "connected"]_vars

C4_Witness ==
  /\ Mounted
  /\ Len(messages) >= 3
  /\ Last(messages).sender = "agent"
  /\ Last(messages).content = JString(Hi)
  /\ messages[Len(messages) - 1].sender = "user"
  /\ connectionStatus = "connected"
  /\ ~isLoading

\* C5: a sendMessage call on empty or whitespace-only input changes nothing
\* (log, input, isLoading, connectionStatus) and issues no request.
C5_BlankSendIsNoOp ==
  [][(Mounted /\ Trim(inputMessage) = <<>>)
       => /\ SendMessage => UNCHANGED vars
          /\ Mounted' => sent' = sent]_vars

C5_Witness ==
  /\ Mounted
  /\ ~isLoading
  /\ inputMessage = <<" ">>
  /\ Len(messages) >= 3


\* what the claims call a valid Contact: name non-empty after trimming and
\* e-mail of the shape local@domain.tld
NameGiven(fd) == Trim(fd.nome) # <<>>

EmailAccepted(fd) == EmailRegexTest(fd.email)

FailingFields(fd) ==
  {f \in {"nome"} : ~NameGiven(fd)} \cup {f \in {"email"} : ~EmailAccepted(fd)}

\* C6: a submit opens the chat if and only if the name is non-empty after
\* trimming and the e-mail matches the pattern; an empty or whitespace-only
\* e-mail never opens it.
C6_SubmitIffValid ==
  [][HandleSubmit
       => /\ showChat' <=> (NameGiven(formData) /\ EmailAccepted(formData))
          /\ Trim(formData.email) = <<>> => ~showChat']_vars

C6_Witness ==
  /\ showChat
  /\ formData.nome = <<" ", "a">>
  /\ Len(formData.email) = MaxEmailLen

\* C7: a submit that fails validation leaves an error entry for exactly the
\* failing fields, keeps showChat false, creates no chat session and issues
\* no webhook request.
C7_InvalidSubmitReportsFields ==
  [][(HandleSubmit /\ FailingFields(formData) # {})
       => /\ DOMAIN errors' = FailingFields(formData)
          /\ \A f \in DOMAIN errors' : errors'[f] # Undefined
          /\ ~showChat'
          /\ sessionId' = NoSession
          /\ sent' = sent /\ inflight' = inflight]_vars

C7_Witness ==
  /\ ~showChat
  /\ DOMAIN errors = {"nome", "email"}
  /\ formData.email # <<>>
  /\ sent = <<>>

\* C8: when the initialize request fails (non-success status or network
\* error) connectionStatus becomes disconnected, the transcript is exactly
\* the greeting, and a non-empty user submit is accepted from then on.
C8_InitFailureKeepsGreeting ==
  [][\A r \in inflight : \A resp \in Responses :
       (Alive(r) /\ (resp.kind = "reject" \/ ~resp.ok) /\ InitializeSettle(r, resp))
       => /\ connectionStatus' = "disconnected"
          /\ Len(messages') = 1
          /\ messages'[1].sender = "agent"
          /\ messages'[1].content = JString(WelcomeText)
          /\ ~InputDisabled'
          /\ \A t \in NonBlankInputs : CanSend(t)']_vars

C8_Witness ==
  /\ Mounted
  /\ connectionStatus = "disconnected"
  /\ Len(messages) = 2
  /\ messages[1].content = JString(WelcomeText)
  /\ messages[2].sender = "user"
  /\ Len(sent) = 2

\* C9: when the initialize request succeeds with a (non-empty) textual reply
\* T in the reply field, exactly one agent message with text T is appended
\* after the greeting and connectionStatus becomes connected.
C9_InitReplyAppended ==
  [][\A r \in inflight : \A resp \in Responses :
       (Alive(r) /\ Succeeded(resp) /\ InitializeSettle(r, resp))
       => \A T \in MessageTexts(resp.data) \ {<<>>} :
            /\ AppendsOneAgent(JString(T))
            /\ Len(messages) = 1
            /\ messages[1].content = JString(WelcomeText)
            /\ connectionStatus' = "connected"]_vars

C9_Witness ==
  /\ Mounted
  /\ Len(messages) = 2
  /\ messages[1].content = JString(WelcomeText)
  /\ messages[2].sender = "agent"
  /\ messages[2].content = JString(Hi)
  /\ connectionStatus = "connected"
  /\ ~isLoading

AliveInFlight == {r \in inflight : Alive(r)}

\* C10 as stated: there is no sequencing guard, so while a request of the
\* session is still in flight a non-empty submit is accepted (and issues a
\* second request).
C10_Original ==
  AliveInFlight # {} => \A t \in NonBlankInputs : CanSend(t)

\* C10 amended: the isLoading flag is a sequencing guard.  It is set exactly
\* while a request of the session is in flight, a submit is not accepted
\* then, and so at most one request of a session is outstanding at a time.
C10_OneRequestAtATime ==
  /\ Cardinality(AliveInFlight) <= 1
  /\ Mounted => (isLoading <=> AliveInFlight # {})
  /\ AliveInFlight # {} => \A t \in ChatInputs : ~CanSend(t)
  /\ \A r \in AliveInFlight : r = sent[Len(sent)]

C10_Witness ==
  /\ Mounted
  /\ Len(sent) >= 2
  /\ \E r \in AliveInFlight : r.action = "send_message"


\* a sendMessage call that is accepted: it appends a user message and issues
\* a send_message request
SendAccepted ==
  /\ SendMessage
  /\ Len(messages') = Len(messages) + 1
  /\ Last(messages').sender = "user"
  /\ Len(sent') = Len(sent) + 1
  /\ Last(sent').action = "send_message"
  /\ Last(sent') \in inflight'

\* C11: whether a submit is accepted depends on the input and on isLoading
\* only, never on connectionStatus: in every state of a session a non-blank
\* input with isLoading clear is accepted, and any other is not.
C11_StatusNeverBlocksSend ==
  (Mounted /\ Len(sent) < MaxRequests)
    => ((Trim(inputMessage) # <<>> /\ ~isLoading) <=> ENABLED SendAccepted)

C11_Witness ==
  /\ Mounted
  /\ connectionStatus = "disconnected"
  /\ Len(sent) = 3
  /\ Last(messages).sender = "user"
  /\ Last(sent) \in inflight


\* the fetch of request r fails: it rejects, answers with a non-success
\* status, or its body does not parse
SettlesFailed(r, resp) ==
  /\ Alive(r)
  /\ ~Succeeded(resp)
  /\ InitializeSettle(r, resp) \/ SendSettle(r, resp)

\* C12: no webhook failure is fatal: the step that handles a failed
\* initialize or send leaves the session mounted with isLoading clear and
\* the input enabled, so that every non-blank submit is accepted again.
C12_FailureLeavesSessionUsable ==
  [][\A r \in inflight : \A resp \in Responses :
       SettlesFailed(r, resp)
       => /\ Mounted'
          /\ connectionStatus' = "disconnected"
          /\ ~InputDisabled'
          /\ \A t \in NonBlankInputs : CanSend(t)']_vars

C12_Witness ==
  /\ Mounted
  /\ Len(messages) = 4
  /\ messages[2].sender = "user"
  /\ messages[3].content = JString(FallbackText)
  /\ messages[4].sender = "user"
  /\ Last(sent) \in inflight


IsGreeting(m) == m.sender = "agent" /\ m.content = JString(WelcomeText)

IsUserTurn(m, text) == m.sender = "user" /\ m.content = JString(text)

IsAgentTurn(m, text) == m.sender = "agent" /\ m.content = JString(text)

\* the first send of a session settles with success and reply text R
FirstSendAnswered(r, resp, R) ==
  /\ Alive(r)
  /\ Len(sent) = 2
  /\ r = sent[2]
  /\ Succeeded(resp)
  /\ R \in MessageTexts(resp.data) \ {<<>>}
  /\ SendSettle(r, resp)

\* C13 as stated: once the one user message M of a session has been answered
\* with text R, the transcript is exactly [greeting, M, R].
C13_Original ==
  [][\A r \in inflight : \A resp \in Responses : \A R \in {Hi} :
       FirstSendAnswered(r, resp, R)
       => /\ Len(messages') = 3
          /\ IsGreeting(messages'[1])
          /\ IsUserTurn(messages'[2], r.mensagem.conteudo)
          /\ IsAgentTurn(messages'[3], R)]_vars

\* C13 amended: once the one user message M of a session has been answered
\* with text R, the transcript is [greeting, M, R] when the initialize
\* request added no agent message, and [greeting, T, M, R] when the
\* initialize response carried the reply text T.
C13_ThreeOrFourMessages ==
  [][\A r \in inflight : \A resp \in Responses : \A R \in {Hi} :
       FirstSendAnswered(r, resp, R)
       => /\ IsGreeting(messages'[1])
          /\ IF messages[2].sender = "user"
             THEN /\ Len(messages') = 3
                  /\ IsUserTurn(messages'[2], r.mensagem.conteudo)
                  /\ IsAgentTurn(messages'[3], R)
             ELSE /\ Len(messages') = 4
                  /\ messages'[2].sender = "agent"
                  /\ IsUserTurn(messages'[3], r.mensagem.conteudo)
                  /\ IsAgentTurn(messages'[4], R)]_vars

C13_Witness ==
  /\ Mounted
  /\ Len(sent) = 2
  /\ AliveInFlight = {}
  /\ Len(messages) = 3
  /\ IsGreeting(messages[1])
  /\ IsUserTurn(messages[2], sent[2].mensagem.conteudo)
  /\ IsAgentTurn(messages[3], Hi)


\* a success-status response whose body does not parse, or parses to a value
\* with no text in any reply field
MalformedPayload(resp) ==
  /\ ResponseOk(resp)
  /\ ~resp.parses \/ AnyReplyTexts(resp.data) = {}

\* C14: a response with a malformed payload is treated as a failure: an
\* initialize request settles to disconnected, and a send request appends
\* exactly one fallback agent message and settles to disconnected.
C14_MalformedIsFailure ==
  [][\A r \in inflight : \A resp \in Responses :
       (Alive(r) /\ MalformedPayload(resp))
       => /\ InitializeSettle(r, resp) => connectionStatus' = "disconnected"
          /\ SendSettle(r, resp)
               => /\ AppendsOneAgent(JString(FallbackText))
                  /\ connectionStatus' = "disconnected"]_vars


\* C15: the message ids of a session's transcript are pairwise distinct and
\* increase in generation order.
C15_IdsDistinctIncreasing ==
  \A i, j \in DOMAIN messages : i < j => messages[i].id < messages[j].id


\* the log record the claim expects for transcript entry m of session sid
LogRecord(sid, m) ==
  [sessionId |-> sid, message |-> <<m.sender, ": ">> \o Stringify(m.content)]

\* the entries ms2 has beyond its prefix ms1
Added(ms1, ms2) == SubSeq(ms2, Len(ms1) + 1, Len(ms2))

\* C16: every message appended to the transcript (greeting, user message,
\* agent reply, fallback) is handed to the logging call exactly once, in the
\* step that appends it, as {sessionId, "<author>: <text>"}; the log grows
\* in the order of the transcript.
C16_EveryAppendLoggedOnce ==
  [][(Mounted' /\ messages' # messages)
       => /\ IsPrefix(messages, messages')
          /\ IsPrefix(saved, saved')
          /\ Added(saved, saved')
               = [i \in 1..(Len(messages') - Len(messages)) |->
                    LogRecord(sessionId', Added(messages, messages')[i])]]_vars

C16_Witness ==
  /\ Mounted
  /\ Len(messages) = 4
  /\ Len(saved) = 4
  /\ \A i \in 1..4 : saved[i] = LogRecord(sessionId, messages[i])
  /\ messages[2].content = JString(Hi)
  /\ messages[3].sender = "user"
  /\ messages[4].content = JString(FallbackText)


\* this step calls saveMessageToSupabase and the call fails
FailedLogStep == saveFailed' /\ Len(saved') = Len(saved) + 1

\* C17: a failure of the logging call is swallowed: the step in which it
\* fails leaves the transcript, connectionStatus and isLoading as the flow
\* sets them when logging succeeds, and the initialize or send flow still
\* issues its webhook request.
C17_LogFailureSwallowed ==
  [][FailedLogStep
       => /\ Mount
               => /\ messages' = <<WelcomeMessage>>
                  /\ isLoading'
                  /\ connectionStatus' = "connecting"
                  /\ Len(sent') = 1
                  /\ sent'[1].action = "initialize_chat"
                  /\ sent'[1] \in inflight'
          /\ SendMessage
               => /\ messages' = Append(messages, UserMessage(Trim(inputMessage)))
                  /\ isLoading'
                  /\ connectionStatus' = connectionStatus
                  /\ Len(sent') = Len(sent) + 1
                  /\ Last(sent').action = "send_message"
                  /\ Last(sent') \in inflight'
          /\ \A r \in inflight : \A resp \in Responses :
               (Alive(r) /\ (InitializeSettle(r, resp) \/ SendSettle(r, resp)))
               => /\ Len(messages') = Len(messages) + 1
                  /\ IsPrefix(messages, messages')
                  /\ ~isLoading'
                  /\ connectionStatus' =
                       IF resp.kind = "http" /\ resp.ok /\ resp.parses
                       THEN "connected" ELSE "disconnected"]_vars

C17_Witness ==
  /\ Mounted
  /\ mount = 1
  /\ saveFailed
  /\ isLoading
  /\ Len(messages) = 2
  /\ messages[2].sender = "user"
  /\ Len(sent) = 2
  /\ sent[2] \in inflight


\* C18: on an accepted submit the user message is appended and the input is
\* cleared in the step that issues the request, while the request is still
\* unanswered; the appended message and the send_message request both carry
\* the trimmed input.
C18_OptimisticAppendOfTrimmedText ==
  [][(SendMessage /\ Trim(inputMessage) # <<>> /\ ~isLoading)
       => /\ Len(messages') = Len(messages) + 1
          /\ IsPrefix(messages, messages')
          /\ IsUserTurn(Last(messages'), Trim(inputMessage))
          /\ inputMessage' = <<>>
          /\ Len(sent') = Len(sent) + 1
          /\ Last(sent').action = "send_message"
          /\ Last(sent').mensagem.conteudo = Trim(inputMessage)
          /\ Last(sent') \in inflight' \ inflight]_vars

C18_Witness ==
  /\ Mounted
  /\ inputMessage = <<>>
  /\ Len(messages) = 3
  /\ IsAgentTurn(messages[2], Hi)
  /\ IsUserTurn(messages[3], <<"a">>)
  /\ Len(sent) = 2
  /\ sent[2].mensagem.conteudo = <<"a">>
  /\ sent[2] \in inflight


SendRequests == {i \in DOMAIN sent : sent[i].action = "send_message"}

InitRequests == {i \in DOMAIN sent : sent[i].action = "initialize_chat"}

UserMessages == {i \in DOMAIN messages : messages[i].sender = "user"}

\* C19: there is no automatic retry: a mounted session has issued exactly
\* one initialize_chat request and as many send_message requests as its
\* transcript has user messages, and a step in which a request fails issues
\* no request.
C19_NoAutomaticRetry ==
  /\ [](Mounted => /\ InitRequests = {1}
                   /\ Cardinality(SendRequests) = Cardinality(UserMessages))
  /\ [][\A r \in inflight : \A resp \in Responses :
          ((InitializeSettle(r, resp) \/ SendSettle(r, resp))
             /\ ~(resp.kind = "http" /\ resp.ok /\ resp.parses))
          => /\ sent' = sent
             /\ inflight' = inflight \ {r}]_vars

C19_Witness ==
  /\ Mounted
  /\ connectionStatus = "disconnected"
  /\ AliveInFlight = {}
  /\ Len(sent) = 3
  /\ Cardinality(UserMessages) = 2
  /\ Len(messages) = 5
  /\ messages[3].content = JString(FallbackText)
  /\ messages[5].content = JString(FallbackText)


NoModifier(e) == ~e.shiftKey /\ ~e.ctrlKey /\ ~e.altKey /\ ~e.metaKey

\* key press e makes a send happen
KeySends(e) == HandleKeyPress(e) /\ SendAccepted

\* the chat input holds a text that sendMessage accepts
ReadyToSend ==
  /\ Mounted
  /\ Trim(inputMessage) # <<>>
  /\ ~isLoading
  /\ Len(sent) < MaxRequests

\* C20 as stated: an Enter key-press sends exactly when no modifier key
\* (shift, ctrl, alt, meta) is held.
C20_Original ==
  ReadyToSend
    => \A e \in KeyEvents :
         e.key = "Enter" => (ENABLED KeySends(e) <=> NoModifier(e))

\* C20 amended: an Enter key-press sends exactly when Shift is not held,
\* whatever the state of ctrl, alt and meta; no other key sends.
C20_EnterSendsUnlessShift ==
  ReadyToSend
    => \A e \in KeyEvents :
         ENABLED KeySends(e) <=> (e.key = "Enter" /\ ~e.shiftKey)

C20_Witness ==
  /\ ReadyToSend
  /\ inputMessage = PaddedInput
  /\ ENABLED KeySends(KeyEvent("Enter", {"ctrl"}))
  /\ ~ENABLED KeySends(KeyEvent("Enter", {"shift"}))


\* C21: the greeting is put in the transcript before the initialize request
\* is issued: every non-empty transcript starts with the agent-authored
\* greeting, a mounted session has it from its first state on, and the first
\* request of the session is its initialize_chat request.
C21_GreetingFirstThenInitialize ==
  /\ messages # <<>> => IsGreeting(messages[1])
  /\ Mounted => /\ messages # <<>>
                /\ sent # <<>>
                /\ sent[1].action = "initialize_chat"
                /\ sent[1].sessionId = sessionId
                /\ \A i \in DOMAIN sent : i > 1 => sent[i].action = "send_message"

C21_Witness ==
  /\ Mounted
  /\ Len(messages) = 4
  /\ IsGreeting(messages[1])
  /\ IsAgentTurn(messages[2], Hi)
  /\ IsUserTurn(messages[3], <<"a">>)
  /\ IsAgentTurn(messages[4], Hi)
  /\ Len(sent) = 2
  /\ sent[1].action = "initialize_chat"


\* C22: the Contact is immutable for the lifetime of a chat session: every
\* request the session has issued carries the nome, email and solicitacao
\* held by the form, these values pass the intake validation, and no step
\* taken while the chat is shown changes them.
C22_ContactImmutableInSession ==
  /\ [](Mounted => /\ NameGiven(formData) /\ EmailAccepted(formData)
                   /\ \A i \in DOMAIN sent : sent[i].usuario = formData)
  /\ [][showChat => formData' = formData]_vars

C22_Witness ==
  /\ Mounted
  /\ Len(sent) = 3
  /\ formData.solicitacao = <<"a">>
  /\ \A i \in 1..3 : sent[i].usuario = formData
  /\ sent[3] \in inflight


\* C23: isLoading, once set by initializeChat or sendMessage, is cleared when
\* the outstanding request settles, on the success path and on every failure
\* path: it is never true in a session with no request in flight, and, every
\* fetch eventually settling, a set isLoading is eventually cleared.
C23_LoadingEventuallyCleared ==
  /\ []((Mounted /\ AliveInFlight = {}) => ~isLoading)
  /\ (isLoading ~> ~isLoading)

C23_Witness ==
  /\ Mounted
  /\ ~isLoading
  /\ AliveInFlight = {}
  /\ connectionStatus = "connected"
  /\ Len(sent) = 3
  /\ Len(messages) = 5
  /\ IsAgentTurn(messages[3], FallbackText)
  /\ IsAgentTurn(messages[5], Hi)


\* request r was issued by an instance that has been unmounted since
Stale(r) == r.mount < mount \/ ~Mounted

\* C24: leaving the chat with onBack and submitting again starts an
\* independent session: the back action keeps the form field values, the new
\* transcript starts as just the greeting with one initialize_chat request,
\* and a response of an earlier session that arrives afterwards changes
\* neither the transcript nor the connectionStatus.
C24_BackStartsIndependentSession ==
  [][/\ OnBack => (formData' = formData /\ ~showChat')
     /\ (Mount /\ mount >= 1)
          => /\ messages' = <<WelcomeMessage>>
             /\ connectionStatus' = "connecting"
             /\ Len(sent') = 1
             /\ sent'[1].action = "initialize_chat"
             /\ sent'[1].usuario = formData
     /\ \A r \in inflight : \A resp \in Responses :
          (Stale(r) /\ (InitializeSettle(r, resp) \/ SendSettle(r, resp)))
          => /\ messages' = messages
             /\ connectionStatus' = connectionStatus]_vars

C24_Witness ==
  /\ Mounted
  /\ mount = 2
  /\ messages = <<WelcomeMessage>>
  /\ connectionStatus = "connecting"
  /\ Len(saved) = 2
  /\ saved[2].message = <<"agent", ": ">> \o Hi
  /\ \A r \in inflight : r.mount = 2


(* --------------------------- the no-cors variant ------------------------ *)
NoCorsWelcomeText(nome) ==
  <<"Ola ">> \o nome
    \o <<"! Recebi sua solicitacao e estou aqui para ajuda-lo. Como posso auxilia-lo hoje?">>

NoCorsWelcomeMessage ==
  [id |-> now, content |-> JString(NoCorsWelcomeText(formData.nome)),
   sender |-> "agent", timestamp |-> now]

AckText ==
  <<"Mensagem recebida! Estou processando sua solicitacao. Verifique o historico do seu webhook N8N para confirmar o recebimento.">>

\* the message built by the setTimeout callback
AckResponse ==
  [id |-> now + 1, content |-> JString(AckText), sender |-> "agent", timestamp |-> now]

\* the negation of the early return of sendMessage
NoCorsCanSend(text) == Trim(text) # <<>> /\ ~isLoading

\* the userData the component is rendered with
NoCorsUserData ==
  [nome |-> <<"a">>, email |-> <<"a", "@", "a", ".", "a">>, solicitacao |-> <<>>]

NoCorsInit ==
  /\ formData = NoCorsUserData
  /\ errors = NoErrors
  /\ showChat = TRUE
  /\ messages = <<>>
  /\ inputMessage = <<>>
  /\ isLoading = FALSE
  /\ connectionStatus = "connecting"
  /\ sessionId = NoSession
  /\ mount = 0
  /\ now = 0
  /\ sent = <<>>
  /\ inflight = {}
  /\ saved = <<>>
  /\ saveFailed = FALSE
  /\ timers = <<>>

\* first render and the mount effect: initializeChat up to the fetch call
NoCorsMount ==
  /\ showChat /\ sessionId = NoSession /\ mount = 0
  /\ \E r \in 1..NumRand :
       LET sid == NewSessionId(r)
           webhookData == WebhookData(1, 1, sid, "initialize_chat",
                                      "inicializacao", InitConteudo(formData))
       IN
       /\ sessionId' = sid
       /\ saved' = Append(saved, SaveEntry(sid, NoCorsWelcomeMessage.content, "agent"))
       /\ saveFailed' \in BOOLEAN
       /\ sent' = <<webhookData>>
       /\ inflight' = {webhookData}
  /\ mount' = 1
  /\ inputMessage' = <<>>
  /\ isLoading' = TRUE
  /\ connectionStatus' = "connecting"
  /\ messages' = <<NoCorsWelcomeMessage>>
  /\ UNCHANGED <<formVars, now, timers>>

\* sendMessage up to the fetch call
NoCorsSendMessage ==
  /\ Mounted
  /\ NoCorsCanSend(inputMessage) => Len(sent) < MaxRequests
  /\ IF NoCorsCanSend(inputMessage)
     THEN LET messageToSend == inputMessage
              webhookData == WebhookData(mount, Len(sent) + 1, sessionId,
                                         "send_message", "usuario", messageToSend)
          IN
          /\ messages' = AppendMessage(messages, UserMessage(inputMessage))
          /\ saved' = Append(saved, SaveEntry(sessionId, JString(inputMessage), "user"))
          /\ saveFailed' \in BOOLEAN
          /\ inputMessage' = <<>>
          /\ isLoading' = TRUE
          /\ sent' = Append(sent, webhookData)
          /\ inflight' = inflight \cup {webhookData}
          /\ UNCHANGED <<formVars, connectionStatus, sessionId, mount, now, timers>>
     ELSE UNCHANGED vars

\* initializeChat from the point its fetch resolves (with an opaque
\* response) or rejects
NoCorsInitializeSettle(r, resolved) ==
  /\ r \in inflight
  /\ r.action = "initialize_chat"
  /\ connectionStatus' = IF resolved THEN "connected" ELSE "disconnected"
  /\ isLoading' = FALSE
  /\ inflight' = inflight \ {r}
  /\ UNCHANGED <<formVars, messages, inputMessage, sessionId, mount, now, sent,
                 saved, saveFailed, timers>>

TimersAfterSend_Restarts(ts, r) == <<r.seq>>

\* setTimeout(..., 2000) after the fetch of request r has resolved
TimersAfterSend(ts, r) == Append(ts, r.seq)

\* sendMessage from the point its fetch resolves or rejects
NoCorsSendSettle(r, resolved) ==
  /\ r \in inflight
  /\ r.action = "send_message"
  /\ IF resolved
     THEN /\ connectionStatus' = "connected"
          /\ timers' = TimersAfterSend(timers, r)
          /\ UNCHANGED <<messages, saved, saveFailed>>
     ELSE /\ connectionStatus' = "disconnected"
          /\ messages' = AppendMessage(messages, FallbackResponse)
          /\ saved' = Append(saved, SaveEntry(sessionId, FallbackResponse.content, "agent"))
          /\ saveFailed' \in BOOLEAN
          /\ UNCHANGED timers
  /\ isLoading' = FALSE
  /\ inflight' = inflight \ {r}
  /\ UNCHANGED <<formVars, inputMessage, sessionId, mount, now, sent>>

\* the oldest pending timer fires; timers of equal delay fire in the order
\* they were set
NoCorsTimerFires ==
  /\ Mounted
  /\ timers # <<>>
  /\ messages' = AppendMessage(messages, AckResponse)
  /\ saved' = Append(saved, SaveEntry(sessionId, AckResponse.content, "agent"))
  /\ saveFailed' \in BOOLEAN
  /\ timers' = Tail(timers)
  /\ UNCHANGED <<formVars, inputMessage, isLoading, connectionStatus, sessionId,
                 mount, now, sent, inflight>>

NextNoCors ==
  \/ NoCorsMount
  \/ \E v \in ChatInputs : SetInputMessage(v)
  \/ NoCorsSendMessage
  \/ \E r \in inflight : \E resolved \in BOOLEAN : NoCorsInitializeSettle(r, resolved)
  \/ \E r \in inflight : \E resolved \in BOOLEAN : NoCorsSendSettle(r, resolved)
  \/ NoCorsTimerFires
  \/ Tick

SpecNoCors == NoCorsInit /\ [][NextNoCors]_vars


Acks == {i \in DOMAIN messages : messages[i].content = JString(AckText)}

Fallbacks == {i \in DOMAIN messages : messages[i].content = JString(FallbackText)}

\* the send_message requests whose fetch has settled
SettledSends == {i \in SendRequests : sent[i] \notin inflight}

\* a sendMessage call of the no-cors variant that is accepted
NoCorsSendAccepted ==
  /\ NoCorsSendMessage
  /\ Len(messages') = Len(messages) + 1
  /\ Last(messages').sender = "user"
  /\ Len(sent') = Len(sent) + 1
  /\ Last(sent') \in inflight'

\* C25: in the no-cors variant a send whose fetch resolves sets
\* connectionStatus to connected, clears isLoading at once, appends nothing
\* yet and sets one timer; a timer that fires appends exactly one canned
\* acknowledgement, so every settled send is matched by one acknowledgement,
\* one pending timer or one fallback; while acknowledgements are pending a
\* further non-blank send is accepted; and the timers are pending in the
\* order their sends were issued, which is the order they fire in.
C25_NoCorsAcknowledgements ==
  /\ [](Mounted => Cardinality(SettledSends)
                     = Cardinality(Acks) + Len(timers) + Cardinality(Fallbacks))
  /\ [](\A i, j \in DOMAIN timers : i < j => timers[i] < timers[j])
  /\ []((Mounted /\ timers # <<>> /\ inflight = {}
           /\ Trim(inputMessage) # <<>> /\ Len(sent) < MaxRequests)
          => ENABLED NoCorsSendAccepted)
  /\ [][\A r \in inflight :
          NoCorsSendSettle(r, TRUE)
          => /\ connectionStatus' = "connected"
             /\ ~isLoading'
             /\ messages' = messages
             /\ timers' = Append(timers, r.seq)]_vars
  /\ [][NoCorsTimerFires
          => /\ AppendsOneAgent(JString(AckText))
             /\ timers' = Tail(timers)]_vars

C25_Witness ==
  /\ Mounted
  /\ connectionStatus = "connected"
  /\ ~isLoading
  /\ Len(messages) = 4
  /\ messages[2].sender = "user"
  /\ messages[3].sender = "user"
  /\ messages[4].content = JString(AckText)
  /\ timers = <<3>>

====
